---------------------------- MODULE Spec2Model ----------------------------
(***************************************************************************)
(* DoctorHub Conscient Mall: the CSV record loader, the query engine, the  *)
(* mobile formatter and the Flask routes of doctor_api_server.py, with the *)
(* header-cleaning loader of doctor_search_app.py and the library calls of *)
(* doctorsearchapp.py.                                                     *)
(*                                                                         *)
(* A Python str is a sequence of code points (integers): "Ab" is           *)
(* <<65, 98>>.  None is the one-element sequence <<-1>>, which no str      *)
(* equals.  A dict is a function from its keys to its values.  A call      *)
(* that may raise returns [exc, val]: exc = "" when it returned val.       *)
(***************************************************************************)
EXTENDS Integers, Sequences, FiniteSets, TLC

VARIABLES
    source,      \* the CSV resource behind csv_url / csv_path
    use_github,  \* DoctorSearchApp.use_github of the shared doctor_app
    hashseed,    \* the per-process seed of Python's str hash
    request,     \* the call or HTTP request handled last
    response,    \* what it returned
    fetched,     \* how many times that request fetched/read the source
    inflight,    \* the requests the threaded server is handling, by client
    csv_file,    \* the text of the local doctors_data.csv, or NoFile
    added        \* the details of the add_doctor_local calls that succeeded

vars == <<source, use_github, hashseed, request, response, fetched,
          inflight, csv_file, added>>

(***************************************************************************)
(* Bounds of the model.                                                    *)
(***************************************************************************)
MaxRows == 2
HashBits == 4

(***************************************************************************)
(* Python str operations.                                                  *)
(***************************************************************************)
None == <<-1>>

BOM == 65279

SEMICOLON == 59

\* str.isspace of one character (the ASCII whitespace; U+FEFF is not one)
IsSpace(c) == c \in {9, 10, 11, 12, 13, 28, 29, 30, 31, 32}

\* str.lower
Lower(s) == [i \in 1..Len(s) |-> IF s[i] \in 65..90 THEN s[i] + 32 ELSE s[i]]

SetMin(S) == CHOOSE x \in S : \A y \in S : x <= y

SetMax(S) == CHOOSE x \in S : \A y \in S : x >= y

\* str.strip(): leading and trailing whitespace removed
Strip(s) ==
    LET keep == {i \in 1..Len(s) : ~IsSpace(s[i])}
    IN  IF keep = {} THEN <<>> ELSE SubSeq(s, SetMin(keep), SetMax(keep))

\* k in s
Contains(k, s) ==
    \E i \in 0..(Len(s) - Len(k)) : SubSeq(s, i + 1, i + Len(k)) = k

\* s.replace(c, '') for a one-character c
Remove(s, c) == SelectSeq(s, LAMBDA x : x # c)

\* s.split(c) for a one-character c: the pieces between separators
RECURSIVE Split(_, _)
Split(s, c) ==
    LET at == {i \in 1..Len(s) : s[i] = c}
    IN  IF at = {} THEN <<s>>
        ELSE LET i == SetMin(at)
             IN  <<SubSeq(s, 1, i - 1)>> \o Split(SubSeq(s, i + 1, Len(s)), c)

\* a < b in Python's str order: by code point, a proper prefix first
RECURSIVE StrLess(_, _)
StrLess(a, b) ==
    IF b = <<>> THEN FALSE
    ELSE IF a = <<>> THEN TRUE
    ELSE IF a[1] # b[1] THEN a[1] < b[1]
    ELSE StrLess(Tail(a), Tail(b))

\* sorted(list(S)) for a set of str
RECURSIVE Sorted(_)
Sorted(S) ==
    IF S = {} THEN <<>>
    ELSE LET m == CHOOSE x \in S : \A y \in S \ {x} : StrLess(x, y)
         IN  <<m>> \o Sorted(S \ {m})

RECURSIVE SumCodes(_)
SumCodes(s) == IF s = <<>> THEN 0 ELSE s[1] + SumCodes(Tail(s))

HashMod == 2 ^ HashBits

\* hash(s): a signed integer of HashBits bits (64 in CPython) that depends on
\* the process's seed; hash('') is 0 for every seed
Hash(seed, s) ==
    IF s = <<>> THEN 0
    ELSE (((seed + Len(s)) * SumCodes(s)) % HashMod) - (HashMod \div 2)

(***************************************************************************)
(* The six required field names.                                           *)
(***************************************************************************)
DoctorName == <<68, 111, 99, 116, 111, 114, 32, 78, 97, 109, 101>>

Specialization == <<83, 112, 101, 99, 105, 97, 108, 105, 122, 97, 116, 105, 111, 110>>

ClinicLocation == <<67, 108, 105, 110, 105, 99, 47, 76, 111, 99, 97, 116, 105, 111, 110>>

OPDDays == <<79, 80, 68, 32, 68, 97, 121, 115>>

Timings == <<84, 105, 109, 105, 110, 103, 115>>

Contact == <<67, 111, 110, 116, 97, 99, 116>>

required_fields == <<DoctorName, Specialization, ClinicLocation, OPDDays, Timings, Contact>>

(***************************************************************************)
(* Results of calls that may raise.                                        *)
(***************************************************************************)
Ok(v) == [exc |-> "", val |-> v]

Raise(e) == [exc |-> e, val |-> <<>>]

(***************************************************************************)
(* csv.DictReader over a source already cut into cells: header is the      *)
(* first line's cells, rows the cells of the lines after it.               *)
(***************************************************************************)
\* the value DictReader stores under the key None for a row longer than the
\* header (the list of the extra cells; no code of the repository reads it)
RestList == <<-2>>

\* one row as a dict: dict(zip(fieldnames, row)), then restkey/restval
DictRow(fieldnames, row) ==
    LET lf == Len(fieldnames)
        lr == Len(row)
        keys == {fieldnames[i] : i \in 1..lf} \cup (IF lf < lr THEN {None} ELSE {})
    IN  [k \in keys |->
            IF k = None THEN RestList
            ELSE LET m == SetMax({i \in 1..lf : fieldnames[i] = k})
                 IN  IF m > lr THEN None ELSE row[m]]

\* list(csv.DictReader(f)) with the given field names: blank lines skipped
DictRows(fieldnames, rows) ==
    LET lines == SelectSeq(rows, LAMBDA r : r # <<>>)
    IN  [i \in 1..Len(lines) |-> DictRow(fieldnames, lines[i])]

(***************************************************************************)
(* doctor_api_server.py: the loader.                                       *)
(***************************************************************************)
\* the loader variant that re-raises instead of returning []
load_doctors_from_github_raising(src) ==
    IF src.state = "unreachable" THEN Raise("RequestException")
    ELSE IF src.state = "malformed" THEN Raise("csv.Error")
    ELSE Ok(DictRows(src.header, src.rows))

load_doctors_from_github(src) ==
    IF src.state = "unreachable" THEN Ok(<<>>)
    ELSE IF src.state = "malformed" THEN Ok(<<>>)
    ELSE Ok(DictRows(src.header, src.rows))

load_doctors_from_local(src) ==
    IF src.state = "unreachable" THEN Ok(<<>>)
    ELSE IF src.state = "malformed" THEN Ok(<<>>)
    ELSE Ok(DictRows(src.header, src.rows))

load_doctors(github, src) ==
    IF github THEN load_doctors_from_github(src) ELSE load_doctors_from_local(src)

(***************************************************************************)
(* doctorsearchapp.py: the local file as text.  The csv module's writer    *)
(* and reader with the default dialect, on a file opened with newline=''.  *)
(***************************************************************************)
\* doctors_data.csv does not exist
NoFile == <<-1>>

COMMA == 44

QUOTE == 34

CR == 13

LF == 10

\* a field the writer must quote: it holds the delimiter, the quote
\* character or a character of the line terminator
needs_quotes(s) == \E i \in 1..Len(s) : s[i] \in {COMMA, QUOTE, CR, LF}

\* every quote character of the field doubled
RECURSIVE double_quotes(_)
double_quotes(s) ==
    IF s = <<>> THEN <<>>
    ELSE (IF Head(s) = QUOTE THEN <<QUOTE, QUOTE>> ELSE <<Head(s)>>)
             \o double_quotes(Tail(s))

\* one field as the writer puts it on the line (QUOTE_MINIMAL)
write_field(s) ==
    IF needs_quotes(s) THEN <<QUOTE>> \o double_quotes(s) \o <<QUOTE>> ELSE s

RECURSIVE join_fields(_)
join_fields(cells) ==
    IF cells = <<>> THEN <<>>
    ELSE IF Len(cells) = 1 THEN write_field(cells[1])
    ELSE write_field(cells[1]) \o <<COMMA>> \o join_fields(Tail(cells))

\* csv.writer.writerow: the fields joined by commas, then \r\n; a row of one
\* empty field is written as a pair of quotes
writerow(cells) ==
    (IF cells = <<<<>>>> THEN <<QUOTE, QUOTE>> ELSE join_fields(cells)) \o <<CR, LF>>

\* the members of a set of indices, in increasing order
SortedIndices(S) ==
    [k \in 1..Cardinality(S) |-> CHOOSE p \in S : Cardinality({x \in S : x <= p}) = k]

\* how many quote characters in a row end at index p of s
run_offset(s, p) == p - SetMax({0} \cup {k \in 1..p : s[k] # QUOTE})

\* the inside of a quoted field with each doubled quote read as one
unescape(s) ==
    LET idx == SortedIndices({p \in 1..Len(s) :
                                  s[p] # QUOTE \/ run_offset(s, p) % 2 = 1})
    IN  [k \in 1..Len(idx) |-> s[idx[k]]]

\* the first comma or line break at or after index i, or Len(text) + 1
first_delimiter(text, i) ==
    LET at == {j \in i..Len(text) : text[j] \in {COMMA, CR, LF}}
    IN  IF at = {} THEN Len(text) + 1 ELSE SetMin(at)

\* the quote that closes the field opened by the quote at index i: the
\* first quote that is neither half of a doubled quote; 0 if there is none
closing_quote(text, i) ==
    LET at == {q \in (i + 1)..Len(text) :
                   /\ text[q] = QUOTE
                   /\ Cardinality({x \in (i + 1)..q : text[x] = QUOTE}) % 2 = 1
                   /\ (q = Len(text) \/ text[q + 1] # QUOTE)}
    IN  IF at = {} THEN 0 ELSE SetMin(at)

\* the index after the line break at index j: \r\n is one line break
after_line_end(text, j) ==
    IF text[j] = CR /\ j < Len(text) /\ text[j + 1] = LF THEN j + 2 ELSE j + 1

\* csv.reader over the text from index i, one field at a time.  mid tells
\* that a comma has just been read, row holds the fields of the record
\* being read, rows the records read so far.  A line break outside quotes
\* ends the record, an empty line is the record []; characters after a
\* closing quote are added to the field; the end of the text ends the
\* record being read.
RECURSIVE reader(_, _, _, _, _)
reader(text, i, mid, row, rows) ==
    IF i > Len(text)
    THEN IF mid THEN Append(rows, Append(row, <<>>)) ELSE rows
    ELSE IF ~mid /\ text[i] \in {CR, LF}
    THEN reader(text, after_line_end(text, i), FALSE, <<>>, Append(rows, <<>>))
    ELSE LET quoted == text[i] = QUOTE
             q == IF quoted THEN closing_quote(text, i) ELSE 0
         IN  IF quoted /\ q = 0
             THEN Append(rows, Append(row, unescape(SubSeq(text, i + 1, Len(text)))))
             ELSE LET j == first_delimiter(text, IF quoted THEN q + 1 ELSE i)
                      field == IF quoted
                               THEN unescape(SubSeq(text, i + 1, q - 1))
                                        \o SubSeq(text, q + 1, j - 1)
                               ELSE SubSeq(text, i, j - 1)
                  IN  IF j > Len(text) THEN Append(rows, Append(row, field))
                      ELSE IF text[j] = COMMA
                      THEN reader(text, j + 1, TRUE, Append(row, field), rows)
                      ELSE reader(text, after_line_end(text, j), FALSE, <<>>,
                                  Append(rows, Append(row, field)))

\* list(csv.reader(csvfile))
csv_reader(text) == reader(text, 1, FALSE, <<>>, <<>>)

\* what open(self.csv_path) and csv.DictReader find: no file, or the first
\* record as the field names and the records after it
read_local_csv(file) ==
    IF file = NoFile THEN [state |-> "unreachable", header |-> <<>>, rows |-> <<>>]
    ELSE LET records == csv_reader(file)
         IN  IF records = <<>> THEN [state |-> "ok", header |-> <<>>, rows |-> <<>>]
             ELSE [state |-> "ok", header |-> Head(records), rows |-> Tail(records)]

\* an add_doctor_local that writes the header on every call
add_header_always(file) == TRUE

\* add_header = not os.path.exists(self.csv_path) or
\*              os.stat(self.csv_path).st_size == 0
add_header(file) == file = NoFile \/ file = <<>>

\* add_doctor_local(details): the dict it returns and the file it leaves
add_doctor_local(github, file, details) ==
    IF github
    THEN [result |-> [success |-> FALSE, message |-> "Cannot add doctor when using GitHub mode"],
          file |-> file]
    ELSE IF \E i \in 1..Len(required_fields) : required_fields[i] \notin DOMAIN details
    THEN [result |-> [success |-> FALSE, message |-> "Missing required fields"],
          file |-> file]
    ELSE LET opened == IF file = NoFile THEN <<>> ELSE file
             headed == IF add_header(file) THEN opened \o writerow(required_fields)
                       ELSE opened
             names == {required_fields[i] : i \in 1..Len(required_fields)}
         IN  IF DOMAIN details \ names # {}
             THEN [result |-> [success |-> FALSE, message |-> "Error adding doctor: ValueError"],
                   file |-> headed]
             ELSE [result |-> [success |-> TRUE, message |-> "Doctor added successfully"],
                   file |-> headed \o writerow([i \in 1..Len(required_fields) |->
                                                    details[required_fields[i]]])]

(***************************************************************************)
(* doctor_search_app.py: the loader that cleans headers and values.        *)
(***************************************************************************)
clean_header(header) == Remove(Strip(header), BOM)

\* the keys of a row dict in insertion order: first occurrences in fieldnames
RECURSIVE FirstOccurrences(_)
FirstOccurrences(names) ==
    IF names = <<>> THEN <<>>
    ELSE LET init == SubSeq(names, 1, Len(names) - 1)
             last == names[Len(names)]
         IN  IF \E i \in 1..Len(init) : init[i] = last
             THEN FirstOccurrences(init)
             ELSE FirstOccurrences(init) \o <<last>>

\* {clean_header(k): v.strip() for k, v in row.items()} of a row as long as
\* the header: a later item overwrites an earlier one with the same clean key
cleaned_row(fieldnames, row) ==
    LET d == DictRow(fieldnames, row)
        order == FirstOccurrences(fieldnames)
        keys == {clean_header(order[i]) : i \in 1..Len(order)}
    IN  [k \in keys |->
            Strip(d[order[SetMax({i \in 1..Len(order) : clean_header(order[i]) = k})]])]

clean_load_doctors(src) ==
    IF src.state # "ok" THEN <<>>
    ELSE IF src.header = <<>> THEN <<>>
    ELSE LET fieldnames == [i \in 1..Len(src.header) |-> clean_header(src.header[i])]
             lines == SelectSeq(src.rows, LAMBDA r : r # <<>>)
         IN  IF \E i \in 1..Len(lines) : Len(lines[i]) # Len(fieldnames)
             THEN <<>>
             ELSE [i \in 1..Len(lines) |-> cleaned_row(fieldnames, lines[i])]

(***************************************************************************)
(* doctor_api_server.py: DoctorSearchApp's query engine and formatter.     *)
(***************************************************************************)
\* keyword in doc[f1].lower() or keyword in doc[f2].lower() or ...: the
\* fields are read left to right and the first match ends the chain
RECURSIVE any_field_contains(_, _, _)
any_field_contains(doc, keyword, fields) ==
    IF fields = <<>> THEN Ok(FALSE)
    ELSE LET f == Head(fields)
         IN  IF f \notin DOMAIN doc THEN Raise("KeyError")
             ELSE IF doc[f] = None THEN Raise("AttributeError")
             ELSE IF Contains(keyword, Lower(doc[f])) THEN Ok(TRUE)
             ELSE any_field_contains(doc, keyword, Tail(fields))

\* for doc in doctors: if <chain over fields>: results.append(doc)
RECURSIVE filter_doctors(_, _, _)
filter_doctors(doctors, keyword, fields) ==
    IF doctors = <<>> THEN Ok(<<>>)
    ELSE LET t == any_field_contains(Head(doctors), keyword, fields)
         IN  IF t.exc # "" THEN Raise(t.exc)
             ELSE LET rest == filter_doctors(Tail(doctors), keyword, fields)
                  IN  IF rest.exc # "" THEN rest
                      ELSE IF t.val THEN Ok(<<Head(doctors)>> \o rest.val)
                      ELSE rest

\* search_doctors with the last field of the chain (Contact) left out
search_doctors_no_contact(doctors, keyword) ==
    LET kw == Strip(Lower(keyword))
    IN  IF kw = <<>> THEN Ok(doctors)
        ELSE filter_doctors(doctors, kw, SubSeq(required_fields, 1, 5))

\* search_doctors that treats an empty keyword like any other and trims nothing
search_doctors_no_trim(doctors, keyword) ==
    filter_doctors(doctors, Lower(keyword), required_fields)

search_doctors(doctors, keyword) ==
    LET kw == Strip(Lower(keyword))
    IN  IF kw = <<>> THEN Ok(doctors)
        ELSE filter_doctors(doctors, kw, required_fields)

search_by_specialization(doctors, specialization) ==
    filter_doctors(doctors, Strip(Lower(specialization)), <<Specialization>>)

\* a name search that also looks at the specialization
search_by_name_or_specialization(doctors, name) ==
    filter_doctors(doctors, Strip(Lower(name)), <<DoctorName, Specialization>>)

search_by_name(doctors, name) ==
    filter_doctors(doctors, Strip(Lower(name)), <<DoctorName>>)

get_doctors_by_availability(doctors, day) ==
    filter_doctors(doctors, Strip(Lower(day)), <<OPDDays>>)

\* the suggestions one record adds: each field is tested on its own
RECURSIVE doc_suggestions(_, _, _)
doc_suggestions(doc, keyword, fields) ==
    IF fields = <<>> THEN Ok({})
    ELSE LET f == Head(fields)
         IN  IF f \notin DOMAIN doc THEN Raise("KeyError")
             ELSE IF doc[f] = None THEN Raise("AttributeError")
             ELSE LET rest == doc_suggestions(doc, keyword, Tail(fields))
                  IN  IF rest.exc # "" THEN rest
                      ELSE IF Contains(keyword, Lower(doc[f]))
                      THEN Ok({doc[f]} \cup rest.val)
                      ELSE rest

RECURSIVE all_suggestions(_, _, _)
all_suggestions(doctors, keyword, fields) ==
    IF doctors = <<>> THEN Ok({})
    ELSE LET here == doc_suggestions(Head(doctors), keyword, fields)
         IN  IF here.exc # "" THEN here
             ELSE LET rest == all_suggestions(Tail(doctors), keyword, fields)
                  IN  IF rest.exc # "" THEN rest
                      ELSE Ok(here.val \cup rest.val)

\* autocomplete_doctors that also scans OPD Days
autocomplete_doctors_with_days(doctors, keyword) ==
    LET kw == Strip(Lower(keyword))
    IN  IF kw = <<>> THEN Ok(<<>>)
        ELSE LET s == all_suggestions(doctors, kw, SubSeq(required_fields, 1, 4))
             IN  IF s.exc # "" THEN s ELSE Ok(Sorted(s.val))

autocomplete_doctors(doctors, keyword) ==
    LET kw == Strip(Lower(keyword))
    IN  IF kw = <<>> THEN Ok(<<>>)
        ELSE LET s == all_suggestions(doctors, kw, SubSeq(required_fields, 1, 3))
             IN  IF s.exc # "" THEN s ELSE Ok(Sorted(s.val))

\* the keys the dict literal reads that the record lacks, in reading order
MissingKeys(doctor) ==
    SelectSeq(required_fields, LAMBDA k : k \notin DOMAIN doctor)

\* doctor['Contact'].split(';') if ';' in doctor['Contact'] else [doctor['Contact']]
contact_list(contact) ==
    IF Contains(<<SEMICOLON>>, contact) THEN Split(contact, SEMICOLON) ELSE <<contact>>

\* an availability flag that does not trim: a blank OPD Days counts as set
is_available_untrimmed(days) == days # <<>>

\* bool(doctor['OPD Days'].strip())
is_available(days) == Strip(days) # <<>>

format_doctor_for_mobile(seed, doctor) ==
    IF DoctorName \notin DOMAIN doctor \/ Specialization \notin DOMAIN doctor
    THEN Raise("KeyError")
    ELSE IF doctor[DoctorName] = None \/ doctor[Specialization] = None
    THEN Raise("TypeError")
    ELSE IF MissingKeys(doctor) # <<>> THEN Raise("KeyError")
    ELSE IF doctor[Contact] = None THEN Raise("TypeError")
    ELSE IF doctor[OPDDays] = None THEN Raise("AttributeError")
    ELSE Ok([id |-> Hash(seed, doctor[DoctorName] \o doctor[Specialization]),
             name |-> doctor[DoctorName],
             specialization |-> doctor[Specialization],
             clinic |-> doctor[ClinicLocation],
             days |-> doctor[OPDDays],
             timings |-> doctor[Timings],
             contact |-> contact_list(doctor[Contact]),
             available |-> is_available(doctor[OPDDays])])

\* [doctor_app.format_doctor_for_mobile(doc) for doc in doctors]
RECURSIVE format_all(_, _)
format_all(seed, doctors) ==
    IF doctors = <<>> THEN Ok(<<>>)
    ELSE LET v == format_doctor_for_mobile(seed, Head(doctors))
         IN  IF v.exc # "" THEN v
             ELSE LET rest == format_all(seed, Tail(doctors))
                  IN  IF rest.exc # "" THEN rest ELSE Ok(<<v.val>> \o rest.val)

(***************************************************************************)
(* doctor_api_server.py: the Flask routes.  A handler returns the status   *)
(* code, the JSON body (without its timestamp) and the number of times it  *)
(* called the loader.                                                      *)
(***************************************************************************)
\* request.args.get(name, ''): None stands for a parameter the URL lacks
args_get(arg) == IF arg = None THEN <<>> ELSE arg

\* the except branch of the data routes
error_500(e, loads) ==
    [code |-> 500, body |-> [success |-> FALSE, error |-> e], fetched |-> loads]

error_400(msg) ==
    [code |-> 400, body |-> [success |-> FALSE, error |-> msg], fetched |-> 0]

health_check(github, src) ==
    LET doctors == load_doctors(github, src)
    IN  IF doctors.exc # ""
        THEN [code |-> 500, body |-> [status |-> "error", message |-> doctors.exc],
              fetched |-> 1]
        ELSE [code |-> 200,
              body |-> [status |-> "healthy",
                        data_source |-> IF github THEN "GitHub" ELSE "Local",
                        total_doctors |-> Len(doctors.val)],
              fetched |-> 1]

get_all_doctors(github, src, seed) ==
    LET doctors == load_doctors(github, src)
    IN  IF doctors.exc # "" THEN error_500(doctors.exc, 1)
        ELSE LET formatted_doctors == format_all(seed, doctors.val)
             IN  IF formatted_doctors.exc # "" THEN error_500(formatted_doctors.exc, 1)
                 ELSE [code |-> 200,
                       body |-> [success |-> TRUE, doctors |-> formatted_doctors.val,
                                 count |-> Len(formatted_doctors.val)],
                       fetched |-> 1]

\* a search response whose count is the number of records loaded
search_response_counts_all(github, src, seed, keyword) ==
    LET doctors == load_doctors(github, src)
    IN  IF doctors.exc # "" THEN error_500(doctors.exc, 1)
        ELSE LET results == search_doctors(doctors.val, keyword)
             IN  IF results.exc # "" THEN error_500(results.exc, 1)
                 ELSE LET formatted_results == format_all(seed, results.val)
                      IN  IF formatted_results.exc # ""
                          THEN error_500(formatted_results.exc, 1)
                          ELSE [code |-> 200,
                                body |-> [success |-> TRUE, query |-> keyword,
                                          results |-> formatted_results.val,
                                          count |-> Len(doctors.val)],
                                fetched |-> 1]

\* /api/search after the validation of q: load, search, format, answer
search_response(github, src, seed, keyword) ==
    LET doctors == load_doctors(github, src)
    IN  IF doctors.exc # "" THEN error_500(doctors.exc, 1)
        ELSE LET results == search_doctors(doctors.val, keyword)
             IN  IF results.exc # "" THEN error_500(results.exc, 1)
                 ELSE LET formatted_results == format_all(seed, results.val)
                      IN  IF formatted_results.exc # ""
                          THEN error_500(formatted_results.exc, 1)
                          ELSE [code |-> 200,
                                body |-> [success |-> TRUE, query |-> keyword,
                                          results |-> formatted_results.val,
                                          count |-> Len(formatted_results.val)],
                                fetched |-> 1]

\* get_all_doctors from the point where doctors is bound
doctors_loaded(doctors, seed) ==
    LET formatted_doctors == format_all(seed, doctors.val)
    IN  IF formatted_doctors.exc # "" THEN error_500(formatted_doctors.exc, 1)
        ELSE [code |-> 200,
              body |-> [success |-> TRUE, doctors |-> formatted_doctors.val,
                        count |-> Len(formatted_doctors.val)],
              fetched |-> 1]

\* /api/search from the point where doctors is bound
search_loaded(doctors, seed, keyword) ==
    LET results == search_doctors(doctors.val, keyword)
    IN  IF results.exc # "" THEN error_500(results.exc, 1)
        ELSE LET formatted_results == format_all(seed, results.val)
             IN  IF formatted_results.exc # "" THEN error_500(formatted_results.exc, 1)
                 ELSE [code |-> 200,
                       body |-> [success |-> TRUE, query |-> keyword,
                                 results |-> formatted_results.val,
                                 count |-> Len(formatted_results.val)],
                       fetched |-> 1]

\* doctors kept where every handler thread reads and writes it: a handler
\* sees what another thread loaded after it
doctors_shared(flight, c) ==
    LET others == {o \in DOMAIN flight : o # c /\ flight[o].pc = "loaded"}
    IN  IF others = {} THEN flight[c].doctors
        ELSE flight[CHOOSE o \in others : TRUE].doctors

\* doctors is a local variable of the handler: each thread has its own
doctors_local(flight, c) == flight[c].doctors

\* a search route that loads the doctors before it validates q
api_search_doctors_load_first(github, src, seed, arg) ==
    LET keyword == Strip(args_get(arg))
        loaded == search_response(github, src, seed, keyword)
    IN  IF keyword = <<>>
        THEN [code |-> 400,
              body |-> [success |-> FALSE, error |-> "Search keyword 'q' is required"],
              fetched |-> loaded.fetched]
        ELSE loaded

api_search_doctors(github, src, seed, arg) ==
    LET keyword == Strip(args_get(arg))
    IN  IF keyword = <<>> THEN error_400("Search keyword 'q' is required")
        ELSE search_response(github, src, seed, keyword)

autocomplete(github, src, arg) ==
    LET keyword == Strip(args_get(arg))
    IN  IF keyword = <<>> THEN error_400("Search keyword 'q' is required")
        ELSE LET doctors == load_doctors(github, src)
             IN  IF doctors.exc # "" THEN error_500(doctors.exc, 1)
                 ELSE LET suggestions == autocomplete_doctors(doctors.val, keyword)
                      IN  IF suggestions.exc # "" THEN error_500(suggestions.exc, 1)
                          ELSE [code |-> 200,
                                body |-> [success |-> TRUE, query |-> keyword,
                                          suggestions |-> suggestions.val,
                                          count |-> Len(suggestions.val)],
                                fetched |-> 1]

\* doc['Specialization'].strip() for doc in doctors if doc['Specialization'].strip()
RECURSIVE stripped_specializations(_)
stripped_specializations(doctors) ==
    IF doctors = <<>> THEN Ok({})
    ELSE LET doc == Head(doctors)
         IN  IF Specialization \notin DOMAIN doc THEN Raise("KeyError")
             ELSE IF doc[Specialization] = None THEN Raise("AttributeError")
             ELSE LET rest == stripped_specializations(Tail(doctors))
                      s == Strip(doc[Specialization])
                  IN  IF rest.exc # "" THEN rest
                      ELSE Ok((IF s # <<>> THEN {s} ELSE {}) \cup rest.val)

get_specializations(github, src) ==
    LET doctors == load_doctors(github, src)
    IN  IF doctors.exc # "" THEN error_500(doctors.exc, 1)
        ELSE LET specializations == stripped_specializations(doctors.val)
             IN  IF specializations.exc # "" THEN error_500(specializations.exc, 1)
                 ELSE [code |-> 200,
                       body |-> [success |-> TRUE,
                                 specializations |-> Sorted(specializations.val),
                                 count |-> Cardinality(specializations.val)],
                       fetched |-> 1]

get_available_doctors(github, src, seed, arg) ==
    LET day == Strip(args_get(arg))
    IN  IF day = <<>> THEN error_400("Day parameter is required")
        ELSE LET doctors == load_doctors(github, src)
             IN  IF doctors.exc # "" THEN error_500(doctors.exc, 1)
                 ELSE LET available == get_doctors_by_availability(doctors.val, day)
                      IN  IF available.exc # "" THEN error_500(available.exc, 1)
                          ELSE LET formatted_available == format_all(seed, available.val)
                               IN  IF formatted_available.exc # ""
                                   THEN error_500(formatted_available.exc, 1)
                                   ELSE [code |-> 200,
                                         body |-> [success |-> TRUE, day |-> day,
                                                   available_doctors |-> formatted_available.val,
                                                   count |-> Len(formatted_available.val)],
                                         fetched |-> 1]

get_doctor_by_id(github, src, seed, doctor_id) ==
    LET doctors == load_doctors(github, src)
    IN  IF doctors.exc # "" THEN error_500(doctors.exc, 1)
        ELSE LET formatted_doctors == format_all(seed, doctors.val)
             IN  IF formatted_doctors.exc # "" THEN error_500(formatted_doctors.exc, 1)
                 ELSE LET found == {i \in 1..Len(formatted_doctors.val) :
                                        formatted_doctors.val[i].id = doctor_id}
                      IN  IF found = {}
                          THEN [code |-> 404,
                                body |-> [success |-> FALSE, error |-> "Doctor not found"],
                                fetched |-> 1]
                          ELSE [code |-> 200,
                                body |-> [success |-> TRUE,
                                          doctor |-> formatted_doctors.val[SetMin(found)]],
                                fetched |-> 1]

\* the handler of unmatched URLs
not_found ==
    [code |-> 404,
     body |-> [success |-> FALSE, error |-> "Endpoint not found",
               message |-> "Please check the API documentation at the root URL"],
     fetched |-> 0]

\* the digits of a natural number, and str(n) of an integer
RECURSIVE Digits(_)
Digits(n) == IF n < 10 THEN <<48 + n>> ELSE Digits(n \div 10) \o <<48 + (n % 10)>>

IntToStr(n) == IF n < 0 THEN <<45>> \o Digits(0 - n) ELSE Digits(n)

\* int(s) of a string of digits
RECURSIVE ParseInt(_)
ParseInt(s) ==
    IF s = <<>> THEN 0 ELSE 10 * ParseInt(SubSeq(s, 1, Len(s) - 1)) + (s[Len(s)] - 48)

\* the <int:...> converter of the URL rule matches \d+ only
IntConverterMatches(segment) ==
    segment # <<>> /\ \A i \in 1..Len(segment) : segment[i] \in 48..57

\* GET /api/doctor/<segment>: the rule '/api/doctor/<int:doctor_id>'
route_doctor(github, src, seed, segment) ==
    IF IntConverterMatches(segment)
    THEN get_doctor_by_id(github, src, seed, ParseInt(segment))
    ELSE not_found

(***************************************************************************)
(* The inputs of the model: CSV headers, rows and keywords.                *)
(***************************************************************************)
\* the header line of doctors_data.csv as add_doctor_local writes it
StdHeader == required_fields

\* the same header in a file saved with a byte-order mark
BomHeader == <<<<BOM>> \o DoctorName>> \o Tail(required_fields)

\* a byte-order mark and a space before the first name, a padded second name
BomSpaceHeader ==
    <<<<BOM, 32>> \o DoctorName, <<32>> \o Specialization \o <<32>>>>
        \o SubSeq(required_fields, 3, 6)

\* a file without the Contact column
NoContactHeader == SubSeq(required_fields, 1, 5)

Headers == {StdHeader, BomHeader, BomSpaceHeader, NoContactHeader}

\* rows of cells: Doctor Name, Specialization, Clinic/Location, OPD Days,
\* Timings, Contact
DoctorRows ==
    { <<<<65>>, <<67>>, <<88>>, <<77>>, <<57>>, <<49>>>>,                \* A,C,X,M,9,1
      <<<<98>>, <<67, 98>>, <<88>>, <<>>, <<57>>, <<49, 59, 50>>>>,      \* b,Cb,X,,9,1;2
      <<<<68>>, <<97, 98>>, <<66, 120>>, <<77>>, <<57>>,
        <<49, 59, 32, 50>>>>,                                            \* D,ab,Bx,M,9,1; 2
      <<<<68>>, <<69>>, <<88>>, <<32>>, <<98, 57>>, <<>>>>,              \* D,E,X, ,b9,
      <<<<>>, <<>>, <<88>>, <<77>>, <<57>>, <<98>>>>,                    \* ,,X,M,9,b
      <<<<32, 68>>, <<69>>, <<88>>, <<77, 98>>, <<57>>, <<49>>>> }       \*  D,E,X,Mb,9,1

\* a line without its last cell, and one with a cell too many
RaggedRows ==
    { <<<<65>>, <<67>>, <<88>>, <<77>>, <<57>>>>,                        \* A,C,X,M,9
      <<<<65>>, <<67>>, <<88>>, <<77>>, <<57>>, <<49>>, <<122>>>> }      \* A,C,X,M,9,1,z

\* keywords: empty, blank, b, " B", m
Keywords == {<<>>, <<32>>, <<98>>, <<32, 66>>, <<109>>}

\* Dr. A,Cardiology,X,"Mon,Wed",9-5,111;222
ExampleRow ==
    << <<68, 114, 46, 32, 65>>,
       <<67, 97, 114, 100, 105, 111, 108, 111, 103, 121>>,
       <<88>>,
       <<77, 111, 110, 44, 87, 101, 100>>,
       <<57, 45, 53>>,
       <<49, 49, 49, 59, 50, 50, 50>> >>

\* a line that ends after its second cell: A,C
ShortRow == <<<<65>>, <<67>>>>

QueryRows == DoctorRows \cup {ExampleRow, ShortRow}

\* cardio
Cardio == <<99, 97, 114, 100, 105, 111>>

QueryKeywords == Keywords \cup {Cardio}

\* the seeds a process may start with
Seeds == {0, 3}

\* the integers a client may ask /api/doctor/ for
RequestedIds == (0 - (HashMod \div 2))..((HashMod \div 2) - 1)

Idle == [route |-> "", arg |-> None]

NoResponse == [code |-> 0, body |-> [success |-> FALSE]]

\* the clients whose requests the server handles at the same time
Clients == {1, 2}

\* the source before a request has read it
NotLoaded == [state |-> "", header |-> <<>>, rows |-> <<>>]

\* a client with no request in the server
IdleFlight ==
    [pc |-> "idle", route |-> "", arg |-> None, seen |-> NotLoaded,
     doctors |-> Ok(<<>>), response |-> NoResponse]

\* the lines written to the source while requests are in flight
ConcRows ==
    { <<<<65>>, <<67>>, <<88>>, <<77>>, <<57>>, <<49>>>>,                \* A,C,X,M,9,1
      <<<<98>>, <<67, 98>>, <<88>>, <<>>, <<57>>, <<49, 59, 50>>>> }     \* b,Cb,X,,9,1;2

\* the requests sent at the same time: all doctors, a search for b, a
\* search with an empty q
ConcRequests ==
    { [route |-> "/api/doctors", arg |-> None],
      [route |-> "/api/search", arg |-> <<98>>],
      [route |-> "/api/search", arg |-> <<>>] }

\* details of add_doctor_local: a plain record; one whose values hold a
\* comma, a quote, a line break, a blank and nothing; one of empty values;
\* one without Contact; one with a seventh key, Email
PlainDetails == DictRow(required_fields, <<<<65>>, <<67>>, <<88>>, <<77>>, <<57>>, <<49>>>>)

QuotedDetails ==
    DictRow(required_fields,
            <<<<97, 44, 98>>, <<34>>, <<120, 13, 10, 121>>, <<32>>, <<>>, <<49, 59, 50>>>>)

EmptyDetails == DictRow(required_fields, <<<<>>, <<>>, <<>>, <<>>, <<>>, <<>>>>)

MissingDetails ==
    DictRow(SubSeq(required_fields, 1, 5), <<<<65>>, <<67>>, <<88>>, <<77>>, <<57>>>>)

ExtraDetails ==
    DictRow(required_fields \o <<<<69, 109, 97, 105, 108>>>>,
            <<<<65>>, <<67>>, <<88>>, <<77>>, <<57>>, <<49>>, <<122>>>>)

DetailsPool == {PlainDetails, QuotedDetails, EmptyDetails, MissingDetails, ExtraDetails}

(***************************************************************************)
(* The state machine: the source changes between requests; one request is  *)
(* handled at a time and its response is delivered before the next.        *)
(***************************************************************************)
Init ==
    /\ source = [state |-> "ok", header |-> StdHeader, rows |-> <<>>]
    /\ use_github = TRUE
    /\ hashseed \in Seeds
    /\ request = Idle
    /\ response = NoResponse
    /\ fetched = 0
    /\ inflight = [c \in Clients |-> IdleFlight]
    /\ csv_file = NoFile
    /\ added = <<>>

\* the file is replaced by one that holds only a header line
ReplaceSource(h) ==
    /\ request.route = ""
    /\ source' = [state |-> "ok", header |-> h, rows |-> <<>>]
    /\ UNCHANGED <<use_github, hashseed, request, response, fetched,
                   inflight, csv_file, added>>

\* a line is added to the file
AppendRow(r) ==
    /\ request.route = ""
    /\ source.state = "ok"
    /\ Len(source.rows) < MaxRows
    /\ source' = [source EXCEPT !.rows = Append(@, r)]
    /\ UNCHANGED <<use_github, hashseed, request, response, fetched,
                   inflight, csv_file, added>>

\* the network or the file goes away, or the content stops parsing
SourceFails(how) ==
    /\ request.route = ""
    /\ source' = [state |-> how, header |-> <<>>, rows |-> <<>>]
    /\ UNCHANGED <<use_github, hashseed, request, response, fetched,
                   inflight, csv_file, added>>

Answer(route, arg, r) ==
    /\ request.route = ""
    /\ request' = [route |-> route, arg |-> arg]
    /\ response' = [code |-> r.code, body |-> r.body]
    /\ fetched' = r.fetched
    /\ UNCHANGED <<source, use_github, hashseed, inflight, csv_file, added>>

GetHealth == Answer("/api/health", None, health_check(use_github, source))

GetDoctors == Answer("/api/doctors", None, get_all_doctors(use_github, source, hashseed))

GetSearch(q) ==
    Answer("/api/search", q, api_search_doctors(use_github, source, hashseed, q))

GetAutocomplete(q) ==
    Answer("/api/autocomplete", q, autocomplete(use_github, source, q))

GetSpecializations ==
    Answer("/api/specializations", None, get_specializations(use_github, source))

GetAvailable(day) ==
    Answer("/api/available", day, get_available_doctors(use_github, source, hashseed, day))

\* the client asks for the doctor with the integer id n
GetDoctor(n) ==
    Answer("/api/doctor", IntToStr(n), route_doctor(use_github, source, hashseed, IntToStr(n)))

\* doctors = app.load_doctors(); app.search_doctors(doctors, keyword)
CallSearch(k) ==
    LET doctors == load_doctors(use_github, source)
        r == search_doctors(doctors.val, k)
    IN  Answer("search_doctors", k, [code |-> 0, body |-> r, fetched |-> 1])

\* doctors = app.load_doctors(); app.autocomplete_doctors(doctors, keyword)
CallAutocomplete(k) ==
    LET doctors == load_doctors(use_github, source)
        r == autocomplete_doctors(doctors.val, k)
    IN  Answer("autocomplete_doctors", k, [code |-> 0, body |-> r, fetched |-> 1])

\* doctors = app.load_doctors() of doctor_api_server.py / doctorsearchapp.py
CallLoad ==
    Answer("load_doctors", None,
           [code |-> 0, body |-> load_doctors(use_github, source), fetched |-> 1])

\* doctors = app.load_doctors() of doctor_search_app.py
CallCleanLoad ==
    Answer("clean_load_doctors", None,
           [code |-> 0, body |-> Ok(clean_load_doctors(source)), fetched |-> 1])

\* doctors = app.load_doctors(); app.search_by_specialization(doctors, k)
CallBySpecialization(k) ==
    LET doctors == load_doctors(use_github, source)
        r == search_by_specialization(doctors.val, k)
    IN  Answer("search_by_specialization", k, [code |-> 0, body |-> r, fetched |-> 1])

\* doctors = app.load_doctors(); app.search_by_name(doctors, k)
CallByName(k) ==
    LET doctors == load_doctors(use_github, source)
        r == search_by_name(doctors.val, k)
    IN  Answer("search_by_name", k, [code |-> 0, body |-> r, fetched |-> 1])

\* doctors = app.load_doctors(); app.get_doctors_by_availability(doctors, k)
CallByAvailability(k) ==
    LET doctors == load_doctors(use_github, source)
        r == get_doctors_by_availability(doctors.val, k)
    IN  Answer("get_doctors_by_availability", k, [code |-> 0, body |-> r, fetched |-> 1])

\* the response is sent; the views and records of the request are dropped
Deliver ==
    /\ request.route # ""
    /\ request' = Idle
    /\ response' = NoResponse
    /\ fetched' = 0
    /\ UNCHANGED <<source, use_github, hashseed, inflight, csv_file, added>>

Next ==
    \/ \E h \in Headers : ReplaceSource(h)
    \/ \E r \in DoctorRows \cup RaggedRows : AppendRow(r)
    \/ \E how \in {"unreachable", "malformed"} : SourceFails(how)
    \/ GetHealth
    \/ GetDoctors
    \/ \E q \in Keywords \cup {None} : GetSearch(q)
    \/ \E q \in Keywords \cup {None} : GetAutocomplete(q)
    \/ GetSpecializations
    \/ \E day \in Keywords \cup {None} : GetAvailable(day)
    \/ \E n \in RequestedIds : GetDoctor(n)
    \/ \E k \in Keywords : CallSearch(k)
    \/ \E k \in Keywords : CallAutocomplete(k)
    \/ CallLoad
    \/ CallCleanLoad
    \/ Deliver

Spec == Init /\ [][Next]_vars

(***************************************************************************)
(* Properties.  They speak of the request in flight: the source does not   *)
(* change between a request and the delivery of its response.              *)
(***************************************************************************)
\* the server accepts a request of client c and starts its handler
Receive(c, req) ==
    /\ inflight[c].pc = "idle"
    /\ inflight' = [inflight EXCEPT ![c] =
                        [IdleFlight EXCEPT !.pc = "received", !.route = req.route,
                                           !.arg = req.arg]]
    /\ UNCHANGED <<source, use_github, hashseed, request, response, fetched,
                   csv_file, added>>

\* the handler runs up to doctors = doctor_app.load_doctors(); the search
\* route returns 400 before that when q is empty
Load(c) ==
    /\ inflight[c].pc = "received"
    /\ inflight' = [inflight EXCEPT ![c] =
           IF @.route = "/api/search" /\ Strip(args_get(@.arg)) = <<>>
           THEN LET r == error_400("Search keyword 'q' is required")
                IN  [@ EXCEPT !.pc = "done",
                              !.response = [code |-> r.code, body |-> r.body]]
           ELSE [@ EXCEPT !.pc = "loaded", !.seen = source,
                          !.doctors = load_doctors(use_github, source)]]
    /\ UNCHANGED <<source, use_github, hashseed, request, response, fetched,
                   csv_file, added>>

\* the handler filters and formats its doctors and returns the response
Respond(c) ==
    /\ inflight[c].pc = "loaded"
    /\ LET doctors == doctors_local(inflight, c)
           r == IF inflight[c].route = "/api/doctors"
                THEN doctors_loaded(doctors, hashseed)
                ELSE search_loaded(doctors, hashseed, Strip(args_get(inflight[c].arg)))
       IN  inflight' = [inflight EXCEPT ![c] =
               [@ EXCEPT !.pc = "done", !.doctors = Ok(<<>>),
                         !.response = [code |-> r.code, body |-> r.body]]]
    /\ UNCHANGED <<source, use_github, hashseed, request, response, fetched,
                   csv_file, added>>

\* the response has been sent to client c
Finish(c) ==
    /\ inflight[c].pc = "done"
    /\ inflight' = [inflight EXCEPT ![c] = IdleFlight]
    /\ UNCHANGED <<source, use_github, hashseed, request, response, fetched,
                   csv_file, added>>

\* the threaded server: handlers of different clients interleave with each
\* other and with changes of the source
ConcNext ==
    \/ ReplaceSource(StdHeader)
    \/ \E r \in ConcRows : AppendRow(r)
    \/ SourceFails("unreachable")
    \/ \E c \in Clients, req \in ConcRequests : Receive(c, req)
    \/ \E c \in Clients : Load(c)
    \/ \E c \in Clients : Respond(c)
    \/ \E c \in Clients : Finish(c)

ConcSpec == Init /\ [][ConcNext]_vars

\* app = DoctorSearchApp(use_github=...) of doctorsearchapp.py over a local
\* file that is absent or empty
LocalInit ==
    /\ source = [state |-> "ok", header |-> StdHeader, rows |-> <<>>]
    /\ use_github \in BOOLEAN
    /\ hashseed \in Seeds
    /\ request = Idle
    /\ response = NoResponse
    /\ fetched = 0
    /\ inflight = [c \in Clients |-> IdleFlight]
    /\ csv_file \in {NoFile, <<>>}
    /\ added = <<>>

\* app.add_doctor_local(details); at most MaxRows calls succeed
AddDoctor(details) ==
    LET r == add_doctor_local(use_github, csv_file, details)
    IN  /\ request.route = ""
        /\ r.result.success => Len(added) < MaxRows
        /\ request' = [route |-> "add_doctor_local", arg |-> details]
        /\ response' = [code |-> 0, body |-> r.result]
        /\ fetched' = 0
        /\ csv_file' = r.file
        /\ added' = IF r.result.success THEN Append(added, details) ELSE added
        /\ UNCHANGED <<source, use_github, hashseed, inflight>>

\* DoctorSearchApp(use_github=False).load_doctors() over the same file
CallLocalLoad ==
    Answer("load_doctors_from_local", None,
           [code |-> 0, body |-> load_doctors(FALSE, read_local_csv(csv_file)),
            fetched |-> 1])

\* add_doctor_local and load_doctors called one after another
LocalNext ==
    \/ \E details \in DetailsPool : AddDoctor(details)
    \/ CallLocalLoad
    \/ Deliver

LocalSpec == LocalInit /\ [][LocalNext]_vars

\* the search route and the three single-field filters over a file with the
\* standard header
QueryNext ==
    \/ ReplaceSource(StdHeader)
    \/ \E r \in QueryRows : AppendRow(r)
    \/ \E q \in QueryKeywords : GetSearch(q)
    \/ \E k \in QueryKeywords : CallBySpecialization(k)
    \/ \E k \in QueryKeywords : CallByName(k)
    \/ \E k \in QueryKeywords : CallByAvailability(k)
    \/ Deliver

QuerySpec == Init /\ [][QueryNext]_vars

\* the records the request in flight was given by the loader
Loaded == load_doctors(use_github, source).val

\* a DoctorRecord of the data model: the six required keys, each with a str
WellFormed(doc) ==
    \A f \in {required_fields[i] : i \in 1..6} : f \in DOMAIN doc /\ doc[f] # None

AllWellFormed(R) == \A i \in 1..Len(R) : WellFormed(R[i])

\* the keyword as the specification normalises it
Normalised(k) == Lower(Strip(k))

\* k matches the record in at least one of the fields
MatchesIn(doc, k, fields) ==
    \E f \in fields : Contains(Normalised(k), Lower(doc[f]))

SixFields == {DoctorName, Specialization, ClinicLocation, OPDDays, Timings, Contact}

SuggestFields == {DoctorName, Specialization, ClinicLocation}

Elements(L) == {L[i] : i \in 1..Len(L)}

\* C1: for a keyword that is non-empty after trimming, search_doctors(R, k)
\* is exactly the subsequence of R, in source order and without
\* deduplication, of the records that contain the lower-cased trimmed k in
\* the lower-cased value of at least one of the six fields.
C1_SearchIsMatchingSubsequence ==
    (/\ request.route = "search_doctors"
     /\ Strip(request.arg) # <<>>
     /\ AllWellFormed(Loaded))
    => /\ response.body.exc = ""
       /\ response.body.val =
              SelectSeq(Loaded, LAMBDA doc : MatchesIn(doc, request.arg, SixFields))

\* a search with a padded upper-case keyword that keeps a record matching
\* only in Contact, keeps a duplicate and drops another record
C1_Witness ==
    /\ request.route = "search_doctors"
    /\ request.arg = <<32, 66>>
    /\ AllWellFormed(Loaded)
    /\ Len(Loaded) = MaxRows
    /\ Len(response.body.val) >= 1
    /\ Len(response.body.val) < Len(Loaded)
    /\ \E i \in 1..Len(response.body.val) :
           ~MatchesIn(response.body.val[i], request.arg, SixFields \ {Contact})

\* C2: for a keyword that is empty after trimming, search_doctors returns R
\* unchanged and autocomplete_doctors returns the empty sequence; neither
\* raises, whatever the records are.
C2_EmptyKeyword ==
    /\ (request.route = "search_doctors" /\ Strip(request.arg) = <<>>)
           => response.body = Ok(Loaded)
    /\ (request.route = "autocomplete_doctors" /\ Strip(request.arg) = <<>>)
           => response.body = Ok(<<>>)

\* a search with a blank keyword over a full source, one record of which is
\* not a well-formed record
C2_Witness ==
    /\ request.route = "search_doctors"
    /\ request.arg = <<32>>
    /\ Len(Loaded) = MaxRows
    /\ ~AllWellFormed(Loaded)
    /\ response.body.val = Loaded

\* C3: for a keyword that is non-empty after trimming, autocomplete_doctors
\* returns a strictly ascending (code point order, so duplicate-free)
\* sequence whose elements are exactly the whole values of Doctor Name,
\* Specialization and Clinic/Location that contain the keyword.
C3_AutocompleteSortedUniqueExact ==
    (/\ request.route = "autocomplete_doctors"
     /\ Strip(request.arg) # <<>>
     /\ AllWellFormed(Loaded))
    => LET L == response.body.val
       IN  /\ response.body.exc = ""
           /\ \A i, j \in 1..Len(L) : i < j => (L[i] # L[j] /\ StrLess(L[i], L[j]))
           /\ Elements(L) =
                  {Loaded[i][f] : <<i, f>> \in
                      {p \in (1..Len(Loaded)) \X SuggestFields :
                          Contains(Normalised(request.arg), Lower(Loaded[p[1]][p[2]]))}}

\* suggestions from two fields, with a record whose OPD Days value matches
\* the keyword and is not suggested
C3_Witness ==
    /\ request.route = "autocomplete_doctors"
    /\ Strip(request.arg) # <<>>
    /\ AllWellFormed(Loaded)
    /\ Len(response.body.val) >= 2
    /\ \E i \in 1..Len(Loaded) :
           /\ Contains(Normalised(request.arg), Lower(Loaded[i][OPDDays]))
           /\ Loaded[i][OPDDays] \notin Elements(response.body.val)

ValidatedRoutes == {"/api/search", "/api/autocomplete", "/api/available"}

\* C4: /api/search, /api/autocomplete and /api/available answer 400 with
\* success false, without calling the loader, when the parameter is
\* missing, empty or blank; and never 400 otherwise.
C4_MissingParameterIs400 ==
    request.route \in ValidatedRoutes
    => IF request.arg = None \/ Strip(request.arg) = <<>>
       THEN response.code = 400 /\ response.body.success = FALSE /\ fetched = 0
       ELSE response.code # 400

\* a blank q rejected while the source holds records
C4_Witness ==
    /\ request.route = "/api/search"
    /\ request.arg = <<32>>
    /\ response.code = 400
    /\ fetched = 0
    /\ Len(Loaded) > 0

\* the id the formatter derives for a record
DerivedId(doc) == Hash(hashseed, doc[DoctorName] \o doc[Specialization])

\* the integer the client of /api/doctor/ asked for
RequestedId == CHOOSE n \in RequestedIds : IntToStr(n) = request.arg

\* the loaded records whose derived id is the requested one
Hits == {i \in 1..Len(Loaded) : DerivedId(Loaded[i]) = RequestedId}

\* C5: /api/doctor/{id} answers 404 exactly when no loaded record has the
\* requested derived id, and otherwise succeeds with the view of the first
\* such record, for every integer the derived id can be (zero and negative
\* ones too).
C5_DoctorByIdFindsEveryListedId ==
    (request.route = "/api/doctor" /\ AllWellFormed(Loaded))
    => /\ (response.code = 404) <=> (Hits = {})
       /\ Hits # {} =>
              /\ response.code = 200
              /\ response.body.success
              /\ response.body.doctor =
                     format_doctor_for_mobile(hashseed, Loaded[SetMin(Hits)]).val

\* the same for the ids the URL rule accepts: zero and the positive ones
DoctorByIdFindsNonNegativeIds ==
    (request.route = "/api/doctor" /\ AllWellFormed(Loaded) /\ RequestedId >= 0)
    => /\ (response.code = 404) <=> (Hits = {})
       /\ Hits # {} =>
              /\ response.code = 200
              /\ response.body.doctor =
                     format_doctor_for_mobile(hashseed, Loaded[SetMin(Hits)]).val

\* a listed negative id is answered by the handler of unmatched URLs
NegativeIdIsEndpointNotFound ==
    (request.route = "/api/doctor" /\ RequestedId < 0)
    => response.code = 404 /\ response.body.error = "Endpoint not found" /\ fetched = 0

\* the load of the request in flight failed: the source could not be
\* retrieved or read, or its content did not parse
SourceFailed == source.state # "ok"

\* C6 as stated: /api/health answers 500 with status "error" whenever the
\* load fails, and healthy only when it succeeded.
C6_HealthReports500OnLoadFailure ==
    request.route = "/api/health"
    => /\ SourceFailed => (response.code = 500 /\ response.body.status = "error")
       /\ response.code = 200 => ~SourceFailed

\* C6 as amended: /api/health always answers 200 "healthy"; a failed load is
\* swallowed by the loader and shows only as total_doctors = 0, and a
\* successful one as the number of records.
C6_HealthIsHealthyWithZeroOnLoadFailure ==
    request.route = "/api/health"
    => /\ response.code = 200
       /\ response.body.status = "healthy"
       /\ fetched = 1
       /\ response.body.total_doctors =
              IF SourceFailed THEN 0
              ELSE Len(SelectSeq(source.rows, LAMBDA r : r # <<>>))

\* a health check while the source is unreachable
C6_Witness ==
    /\ request.route = "/api/health"
    /\ source.state = "unreachable"
    /\ response.code = 200
    /\ response.body.total_doctors = 0

\* a line of the source has fewer or more cells than the header
RaggedSource ==
    /\ source.state = "ok"
    /\ \E i \in 1..Len(source.rows) : Len(source.rows[i]) # Len(source.header)

\* C7: after any retrieval or parse failure, a ragged line included,
\* load_doctors returns the empty sequence without raising, and /api/doctors
\* and /api/health answer 200 with count / total 0.
C7_FailedLoadIsEmpty ==
    (SourceFailed \/ RaggedSource)
    => /\ request.route = "load_doctors" => response.body = Ok(<<>>)
       /\ request.route = "/api/doctors" =>
              (response.code = 200 /\ response.body.count = 0)
       /\ request.route = "/api/health" =>
              (response.code = 200 /\ response.body.total_doctors = 0)

\* load_doctors itself never raises, and returns [] when the source cannot
\* be retrieved or the CSV reader raises
LoadNeverRaises ==
    request.route = "load_doctors"
    => /\ response.body.exc = ""
       /\ SourceFailed => response.body.val = <<>>

\* a name or value with no leading or trailing whitespace and no BOM
IsClean(s) == s = Strip(s) /\ BOM \notin Elements(s)

\* the source loads, and every line has as many cells as the header
LoadsCleanly ==
    /\ source.state = "ok"
    /\ source.header # <<>>
    /\ \A i \in 1..Len(source.rows) : Len(source.rows[i]) = Len(source.header)

\* the records are those of the lines in source order, under clean names and
\* with trimmed values
Normalised_Records(R) ==
    /\ Len(R) = Len(source.rows)
    /\ \A i \in 1..Len(R) :
           /\ \A k \in DOMAIN R[i] : IsClean(k) /\ R[i][k] = Strip(R[i][k])
           /\ source.header[1] \in {<<BOM>> \o DoctorName, <<BOM, 32>> \o DoctorName}
                  => (DoctorName \in DOMAIN R[i]
                      /\ R[i][DoctorName] = Strip(source.rows[i][1]))

\* C8: every record a successful load returns, from either loader, has clean
\* field names and trimmed values, wherever the header holds whitespace and
\* byte-order marks; a BOM-prefixed Doctor Name is addressable as Doctor
\* Name, and rows keep source order.
C8_LoadedRecordsAreNormalised ==
    (request.route \in {"load_doctors", "clean_load_doctors"} /\ LoadsCleanly)
    => Normalised_Records(response.body.val)

\* the loader of doctor_search_app.py alone does normalise: clean_header is
\* applied to the field names and again to the keys of every row
CleanLoaderNormalises ==
    (request.route = "clean_load_doctors" /\ LoadsCleanly)
    => Normalised_Records(response.body.val)

\* the header lacks one of the six required columns
MissingColumn == \E f \in SixFields : f \notin Elements(source.header)

\* C9: a source without one of the required columns does not make
\* /api/doctors or /api/search answer 500: the missing field is taken as
\* the empty string.
C9_MissingColumnIsNot500 ==
    (/\ request.route \in {"/api/doctors", "/api/search"}
     /\ LoadsCleanly
     /\ MissingColumn)
    => response.code # 500

\* the contact sequence the specification describes
TrimmedContacts(contact) ==
    IF Contains(<<SEMICOLON>>, contact)
    THEN LET pieces == Split(contact, SEMICOLON)
         IN  [j \in 1..Len(pieces) |-> Strip(pieces[j])]
    ELSE <<contact>>

\* C10: the view's contact is the sequence of the trimmed substrings between
\* the ';' separators, or the raw string alone when it holds no ';'.
C10_ContactIsSplitAndTrimmed ==
    (request.route = "/api/doctors" /\ response.code = 200)
    => \A i \in 1..Len(Loaded) :
           response.body.doctors[i].contact = TrimmedContacts(Loaded[i][Contact])

\* what the formatter does: the pieces are kept as they are
ContactIsSplitUntrimmed ==
    (request.route = "/api/doctors" /\ response.code = 200)
    => \A i \in 1..Len(Loaded) :
           response.body.doctors[i].contact =
               (IF SEMICOLON \in Elements(Loaded[i][Contact])
                THEN Split(Loaded[i][Contact], SEMICOLON)
                ELSE <<Loaded[i][Contact]>>)

\* C11: a view's available flag is true exactly when OPD Days holds a
\* character that is not whitespace; name, specialization, clinic, days and
\* timings are the record's values unchanged; so every doctor /api/available
\* returns for a non-blank day is available.
C11_AvailableIffDaysNotBlank ==
    /\ (request.route = "/api/doctors" /\ response.code = 200)
       => \A i \in 1..Len(Loaded) :
              LET v == response.body.doctors[i]
                  doc == Loaded[i]
              IN  /\ v.available <=> (\E j \in 1..Len(doc[OPDDays]) : ~IsSpace(doc[OPDDays][j]))
                  /\ v.name = doc[DoctorName]
                  /\ v.specialization = doc[Specialization]
                  /\ v.clinic = doc[ClinicLocation]
                  /\ v.days = doc[OPDDays]
                  /\ v.timings = doc[Timings]
    /\ (request.route = "/api/available" /\ response.code = 200)
       => \A i \in 1..Len(response.body.available_doctors) :
              response.body.available_doctors[i].available

\* all doctors listed, one with a blank OPD Days and one with a padded name
C11_Witness ==
    /\ request.route = "/api/doctors"
    /\ response.code = 200
    /\ \E i, j \in 1..Len(Loaded) :
           /\ Loaded[i][OPDDays] = <<32>>
           /\ ~response.body.doctors[i].available
           /\ response.body.doctors[j].available
           /\ response.body.doctors[j].name = <<32, 68>>

\* the field each single-field filter looks at
TargetField ==
    [search_by_specialization |-> Specialization,
     search_by_name |-> DoctorName,
     get_doctors_by_availability |-> OPDDays]

\* every record has a str under the field
HasField(R, f) == \A i \in 1..Len(R) : f \in DOMAIN R[i] /\ R[i][f] # None

\* C13: a 200 response of /api/search lists, in order, the view of every
\* record search_doctors finds for q among the loaded records, and count is
\* their number; the single row Dr. A / Cardiology / 111;222 / Mon,Wed with
\* q=cardio gives one result with contact [111, 222] and available true.
C13_SearchResponseIsFormattedSearch ==
    (request.route = "/api/search" /\ response.code = 200)
    => LET found == search_doctors(Loaded, request.arg).val
           results == response.body.results
       IN  /\ Len(results) = Len(found)
           /\ \A i \in 1..Len(found) :
                  results[i] = format_doctor_for_mobile(hashseed, found[i]).val
           /\ response.body.count = Len(results)
           /\ (source.rows = <<ExampleRow>> /\ request.arg = Cardio)
              => /\ Len(results) = 1
                 /\ results[1].contact = <<<<49, 49, 49>>, <<50, 50, 50>>>>
                 /\ results[1].available

\* the example: one row, q=cardio, one result
C13_Witness ==
    /\ request.route = "/api/search"
    /\ response.code = 200
    /\ source.rows = <<ExampleRow>>
    /\ request.arg = Cardio
    /\ response.body.count = 1

\* a search that leaves a record out and keeps another
C13_WitnessFiltered ==
    /\ request.route = "/api/search"
    /\ response.code = 200
    /\ Len(Loaded) = MaxRows
    /\ response.body.count = 1

\* C14: over records that have the targeted field, each of
\* search_by_specialization, search_by_name and get_doctors_by_availability
\* returns exactly the records, in source order, whose targeted field,
\* lower-cased, contains the lower-cased trimmed argument, whatever the
\* other fields hold; an argument that is empty after trimming returns all.
C14_SingleFieldFilters ==
    \A call \in DOMAIN TargetField :
        (request.route = call /\ HasField(Loaded, TargetField[call]))
        => /\ response.body.exc = ""
           /\ response.body.val =
                  SelectSeq(Loaded, LAMBDA doc :
                      Contains(Normalised(request.arg), Lower(doc[TargetField[call]])))
           /\ (Strip(request.arg) = <<>>) => response.body.val = Loaded

\* a name search for " B" that drops a record whose specialization has a b
\* and keeps the one named b
C14_Witness ==
    /\ request.route = "search_by_name"
    /\ request.arg = <<32, 66>>
    /\ Len(Loaded) = MaxRows
    /\ Len(response.body.val) = 1
    /\ \E i \in 1..Len(Loaded) :
           /\ Contains(<<98>>, Lower(Loaded[i][Specialization]))
           /\ ~Contains(<<98>>, Lower(Loaded[i][DoctorName]))

\* what the request of client c returns when it is the only one and the
\* source holds what the request read
Alone(c) ==
    LET f == inflight[c]
        r == IF f.route = "/api/doctors"
             THEN get_all_doctors(use_github, f.seen, hashseed)
             ELSE api_search_doctors(use_github, f.seen, hashseed, f.arg)
    IN  [code |-> r.code, body |-> r.body]

\* C12: whatever the interleaving, the response of a request is what the
\* request returns alone over the source as it was when the request loaded
\* it, the records a handler holds are the ones its own load returned, and
\* use_github keeps the value doctor_app was built with.
C12_RequestsAreIndependent ==
    /\ \A c \in Clients :
           /\ inflight[c].pc = "done" => inflight[c].response = Alone(c)
           /\ inflight[c].pc = "loaded"
              => inflight[c].doctors = load_doctors(use_github, inflight[c].seen)
    /\ use_github = TRUE

\* two searches for b answered at the same time, one loaded before a line
\* was added and one after, while the source has since become unreachable
C12_Witness ==
    /\ inflight[1].pc = "done" /\ inflight[2].pc = "done"
    /\ inflight[1].route = "/api/search" /\ inflight[2].route = "/api/search"
    /\ inflight[1].arg = <<98>> /\ inflight[2].arg = <<98>>
    /\ inflight[1].response.code = 200 /\ inflight[2].response.code = 200
    /\ inflight[1].response.body.count = 0
    /\ inflight[2].response.body.count = 1
    /\ source.state = "unreachable"

\* what load_doctors returns in local mode over the file as it is
LocalLoaded == load_doctors(FALSE, read_local_csv(csv_file)).val

\* the details lack one of the six required fields
MissingField(details) ==
    \E i \in 1..Len(required_fields) : required_fields[i] \notin DOMAIN details

\* the file holds the header row as its first record and nowhere else, and
\* loading it gives the details of the successful calls in call order
HeaderOnceAndRecordsKept ==
    /\ csv_file \notin {NoFile, <<>>}
       => LET records == csv_reader(csv_file)
          IN  /\ records[1] = required_fields
              /\ \A i \in 2..Len(records) : records[i] # required_fields
    /\ LocalLoaded = added

\* a call in GitHub mode or without a required field fails and leaves the
\* file as it was
RefusedCallKeepsFile ==
    (/\ request.route = ""
     /\ request'.route = "add_doctor_local"
     /\ use_github \/ MissingField(request'.arg))
    => /\ ~response'.body.success
       /\ csv_file' = csv_file

\* C15: from an absent or empty file, after any sequence of add_doctor_local
\* calls: a call in GitHub mode or without a required field returns
\* success false and leaves the file untouched; the header row is in the
\* file at most once and only as its first line; load_doctors in local mode
\* returns exactly the details of the successful calls, in call order.
C15_AddThenLoadRoundTrip ==
    []HeaderOnceAndRecordsKept /\ [][RefusedCallKeepsFile]_vars

\* a call without Contact refused after MaxRows successful calls, one of
\* them with values the writer had to quote
C15_Witness ==
    /\ request.route = "add_doctor_local"
    /\ request.arg = MissingDetails
    /\ ~response.body.success
    /\ Len(added) = MaxRows
    /\ \E i \in 1..Len(added) : added[i] = QuotedDetails
    /\ LocalLoaded = added

=============================================================================
